---- MODULE Spec2Model ----
(***************************************************************************)
(* Training / evaluation loops of the TopoModelX tutorial notebooks        *)
(* (CCXN with and without attention, TemplateNN, HSN), the train/test      *)
(* split that feeds them, and the rank pooling of CCXN.forward.            *)
(*                                                                         *)
(* Numbers: probabilities are integers in thousandths (500 is 0.5), losses *)
(* are integers in ten-thousandths (6931 is 0.6931), a value printed with  *)
(* the notebooks' ":.4f" is an integer number of ten-thousandths.          *)
(* Original sample indices are 0-based as in the notebooks; sequences are  *)
(* 1-based, so element i of a list carries idx = i - 1.                    *)
(***************************************************************************)
EXTENDS Integers, Sequences, FiniteSets, TLC

VARIABLES
    loop,          \* which training cell runs: "ccxn", "ccxn_att", "template", "hsn"
    num_epochs,    \* the notebook variable num_epochs
    test_interval, \* the notebook variable test_interval
    test_size,     \* the split fraction, [num, den]
    lists,         \* list name -> the full ordered list (x_0_list, ..., y_list / y_true)
    train,         \* list name -> its training part
    test,          \* list name -> its test part
    pc,            \* position of the notebook's control flow
    epoch_i,       \* loop variable epoch_i (0 before the first epoch)
    pos,           \* number of samples the running zip has already yielded
    num_samples,   \* running sample counter
    correct,       \* running correct-prediction counter
    epoch_loss,    \* list of the recorded per-sample losses
    params,        \* model parameters, as the number of optimizer steps applied
    opt_state,     \* the optimizer's state, as Adam's step count
    grad,          \* the parameters' .grad: the backward passes accumulated in it,
                   \* each as the set of sample indices its loss was computed on
    training,      \* the module's mode flag (model.training)
    grad_enabled,  \* torch's gradient tracking flag
    out,           \* the lines written to stdout, by kind and epoch
    line,          \* the last line written, with its formatted values
    cur,           \* what the last iteration bound: pass, samples, y_hat, loss, counted
    error,         \* the exception that ended the run: where it was raised
    epoch_log,     \* history of the running epoch's training pass: the losses
                   \* computed and, per training sample, whether it was counted
    x_rank,        \* CCXN.forward: rank -> matrix after the linear heads (rows of columns)
    rank_mean,     \* CCXN.forward: rank -> its mean after the isnan assignment
    pooled,        \* CCXN.forward: the returned vector
    ci,            \* the "Test" workflow: the event, the job's state, the steps run
    net,           \* the model object and its optimizer: the local list of layers,
                   \* the registered submodules, the plain attributes, the
                   \* optimizer's parameters, the number of updates of each parameter
    twin           \* a second run of the same cell on the same samples and initial
                   \* parameters, with other labels in its test split

vars == <<loop, num_epochs, test_interval, test_size, lists, train, test, pc,
          epoch_i, pos, num_samples, correct, epoch_loss, params, opt_state, grad,
          training, grad_enabled, out, line, cur, error, epoch_log, x_rank,
          rank_mean, pooled, ci, net, twin>>

loopVars == <<num_epochs, test_interval, epoch_i, pos, num_samples, correct,
              epoch_loss, params, opt_state, grad, training, grad_enabled, out,
              line, cur, epoch_log>>

poolVars == <<x_rank, rank_mean, pooled>>

(***************************************************************************)
(* Bounds of the model.                                                    *)
(***************************************************************************)
MaxDataset == 20    \* largest dataset the split is applied to
MaxDen == 5         \* split fractions num/den with den up to this
MaxSamples == 3     \* largest dataset a training loop is run on
MaxEpochs == 2      \* largest num_epochs
MaxInterval == 2    \* largest test_interval
MaxRows == 2        \* most entities of one rank in CCXN.forward
MaxLayers == 3      \* largest n_layers a model is constructed with
MaxSteps == 3       \* most optimizer steps followed after construction

(***************************************************************************)
(* Program constants.                                                      *)
(***************************************************************************)
AttRangeStop == 5
NumNodes == 34
NumTestNodes == 4
NumTrainNodes == 30
threshold_probability_positive_class == 500
Fmt4Scale == 10000
num_classes == 2

KarateLabels ==
    <<1, 1, 1, 1, 1, 1, 1, 1, 1, 0, 1, 1, 1, 1, 0, 0, 1,
      1, 0, 1, 0, 1, 0, 0, 0, 0, 0, 0, 0, 0, 0, 0, 0, 0>>

Loops == {"ccxn", "ccxn_att", "template", "hsn"}
ZipLoops == {"ccxn", "ccxn_att", "template"}

(***************************************************************************)
(* The data lists of a notebook.                                           *)
(***************************************************************************)
ListNames(l) ==
    IF l \in {"ccxn", "ccxn_att"}
    THEN {"x_0", "x_1", "incidence_2_t", "adjacency_0", "y"}
    ELSE IF l = "template" THEN {"x_1", "incidence_1", "y"}
    ELSE {"y"}

\* x_0_list.append(graph.x) ... y_list.append(int(graph.y)): element i of every
\* list comes from graph i; val is the label for y and immaterial otherwise.
MkLists(l, n, labels) ==
    [nm \in ListNames(l) |->
        [i \in 1..n |-> [src |-> nm, idx |-> i - 1,
                         val |-> IF nm = "y" THEN labels[i] ELSE 0]]]

\* y_true = np.zeros((34, 2)); y_true[:, 0] = y; y_true[:, 1] = 1 - y
y_true ==
    [i \in 1..NumNodes |->
        [src |-> "y", idx |-> i - 1,
         val |-> <<KarateLabels[i], 1 - KarateLabels[i]>>]]

(***************************************************************************)
(* train_test_split(arr, test_size=f, shuffle=False)                       *)
(***************************************************************************)
Ceil(a, b) == (a + b - 1) \div b

NTestOffByOne(n, f) == (f.num * n) \div f.den
NTest(n, f) == Ceil(f.num * n, f.den)

NTrain(n, f) == n - NTest(n, f)

TrainPartShifted(arr, f) == SubSeq(arr, 2, NTrain(Len(arr), f) + 1)
TrainPart(arr, f) == SubSeq(arr, 1, NTrain(Len(arr), f))

TestPart(arr, f) ==
    SubSeq(arr, NTrain(Len(arr), f) + 1, NTrain(Len(arr), f) + NTest(Len(arr), f))

\* Python slices arr[:k] and arr[-k:]
Head_(arr, k) == SubSeq(arr, 1, IF k < Len(arr) THEN k ELSE Len(arr))
Tail_(arr, k) == SubSeq(arr, IF k < Len(arr) THEN Len(arr) - k + 1 ELSE 1, Len(arr))

HSNTestLabels(yt) == Head_(yt, NumTestNodes)
HSNTrainLabels(yt) == Tail_(yt, NumTrainNodes)

Fractions == {[num |-> a, den |-> b] : a \in 1..(MaxDen - 1), b \in 2..MaxDen}

SplitFractions == {f \in Fractions : f.num < f.den}

DatasetLen == IF lists = <<>> THEN 0 ELSE Len(lists["y"])

NoCur ==
    [pass |-> "none", bound |-> <<>>, y_hat |-> 0, loss |-> 0,
     counted |-> {}, decisions |-> {}, steps |-> <<>>, backward_from |-> <<>>,
     step_grad |-> <<>>]
NoLog == [losses |-> <<>>, samples |-> <<>>]
NoLine == [kind |-> "none", epoch |-> 0, loss |-> 0, acc |-> 0]
NoError == [at |-> "none", epoch |-> 0, idx |-> 0]
NoTwin ==
    [y_test |-> <<>>, pc |-> "none", epoch_i |-> 0, pos |-> 0, correct |-> 0,
     num_samples |-> 0, epoch_loss |-> <<>>, params |-> 0, opt_state |-> 0,
     grad |-> <<>>, line |-> NoLine, steps_agree |-> TRUE, test_differed |-> FALSE]
NoNet ==
    [n_layers |-> 0, layers |-> <<>>, assigned |-> 0, children |-> {}, attrs |-> {},
     opt |-> {}, updates |-> <<>>, steps |-> 0]
NoCI == [event |-> "none", branch |-> "none", paths |-> {}, job |-> "none", ran |-> <<>>]

LoopIdle ==
    /\ epoch_i = 0 /\ pos = 0 /\ num_samples = 0 /\ correct = 0
    /\ epoch_loss = <<>> /\ params = 0 /\ opt_state = 0 /\ grad = <<>>
    /\ training = TRUE /\ grad_enabled = TRUE
    /\ out = <<>> /\ line = NoLine /\ cur = NoCur /\ epoch_log = NoLog
    /\ error = NoError /\ ci = NoCI /\ net = NoNet /\ twin = NoTwin

PoolIdle == x_rank = <<>> /\ rank_mean = <<>> /\ pooled = <<>>

\* Labels of a dataset of n graphs: every labelling for small n, one fixed
\* alternating labelling beyond (the split never reads the values).
Labellings(n) ==
    IF n <= MaxSamples THEN [1..n -> {0, 1}] ELSE {[i \in 1..n |-> i % 2]}

(***************************************************************************)
(* SpecSplit: the split cells alone, on datasets of up to MaxDataset.      *)
(***************************************************************************)
InitSplit ==
    /\ loop \in Loops
    /\ \/ /\ loop \in ZipLoops
          /\ test_size \in SplitFractions
          /\ \E n \in 0..MaxDataset : \E lab \in Labellings(n) :
                lists = MkLists(loop, n, lab)
       \/ /\ loop = "hsn"
          /\ test_size = [num |-> NumTestNodes, den |-> NumNodes]
          /\ lists = [nm \in {"y"} |-> y_true]
    /\ train = <<>> /\ test = <<>>
    /\ pc = "unsplit"
    /\ num_epochs = 0 /\ test_interval = 1
    /\ LoopIdle /\ PoolIdle

\* The five (three) train_test_split calls of a notebook, each on its own list.
Split ==
    /\ pc = "unsplit" /\ loop \in ZipLoops
    /\ NTrain(DatasetLen, test_size) > 0
    /\ train' = [nm \in DOMAIN lists |-> TrainPart(lists[nm], test_size)]
    /\ test' = [nm \in DOMAIN lists |-> TestPart(lists[nm], test_size)]
    /\ pc' = "split"
    /\ UNCHANGED <<loop, test_size, lists, error, ci, net, twin>>
    /\ UNCHANGED loopVars /\ UNCHANGED poolVars

\* train_test_split raises ValueError when the training part would be empty.
SplitRaise ==
    /\ pc = "unsplit" /\ loop \in ZipLoops
    /\ NTrain(DatasetLen, test_size) = 0
    /\ pc' = "split_error"
    /\ UNCHANGED <<loop, test_size, lists, train, test, error, ci, net, twin>>
    /\ UNCHANGED loopVars /\ UNCHANGED poolVars

\* y_test = y_true[:4]; y_train = y_true[-30:]
HSNSlice ==
    /\ pc = "unsplit" /\ loop = "hsn"
    /\ test' = [nm \in DOMAIN lists |-> HSNTestLabels(lists[nm])]
    /\ train' = [nm \in DOMAIN lists |-> HSNTrainLabels(lists[nm])]
    /\ pc' = "split"
    /\ UNCHANGED <<loop, test_size, lists, error, ci, net, twin>>
    /\ UNCHANGED loopVars /\ UNCHANGED poolVars

NextSplit == Split \/ SplitRaise \/ HSNSlice

SpecSplit == InitSplit /\ [][NextSplit]_vars

(***************************************************************************)
(* Arithmetic of the reported values.                                      *)
(***************************************************************************)
RECURSIVE SumSeq(_)
SumSeq(s) == IF s = <<>> THEN 0 ELSE s[1] + SumSeq(Tail(s))

\* np.mean(epoch_loss), as the exact quotient num / den
Mean(l) == [num |-> SumSeq(l), den |-> Len(l)]

\* correct / num_samples, in ten-thousandths
Ratio(c, n) == [num |-> c * Fmt4Scale, den |-> n]

\* f"{v:.4f}": the nearest number of ten-thousandths, ties to even
Fmt4(q) ==
    LET d == q.num \div q.den
        r == q.num % q.den
    IN  IF 2 * r < q.den THEN d
        ELSE IF 2 * r > q.den THEN d + 1
        ELSE IF d % 2 = 0 THEN d ELSE d + 1

(***************************************************************************)
(* Model outputs, losses and decision rules.                               *)
(***************************************************************************)
\* what model(...) may return: two logits (CCXN), one probability (TemplateNN)
Outputs(l) ==
    IF l = "template" THEN {250, 500, 750} ELSE {<<0, 1>>, <<1, 0>>, <<1, 1>>}

HSNRows == {<<1000, 0>>, <<0, 1000>>, <<500, 500>>}

\* sigmoid outputs of HSN.forward for the 34 nodes
HSNOutputs ==
    {[i \in 1..NumNodes |->
        [src |-> "y_hat", idx |-> i - 1,
         val |-> IF i <= NumTestNodes THEN r1 ELSE r2]] : r1 \in HSNRows, r2 \in HSNRows}

\* y_hat.argmax(): the first index of the largest logit
Argmax(v) == IF v[2] > v[1] THEN 1 ELSE 0

\* torch.nn.CrossEntropyLoss on two logits drawn from {0, 1}
CrossEntropyLoss(yh, y) ==
    LET own == yh[y + 1]
        other == yh[2 - y]
    IN  IF own > other THEN 3133 ELSE IF own = other THEN 6931 ELSE 13133

NegLog(p) == CASE p = 250 -> 13863 [] p = 500 -> 6931 [] p = 750 -> 2877

\* torch.nn.BCELoss on one probability
BCELoss(p, y) == IF y = 1 THEN NegLog(p) ELSE NegLog(1000 - p)

Crit(l, yh, y) == IF l = "template" THEN BCELoss(yh, y) ELSE CrossEntropyLoss(yh, y)

Softplus(x) == CASE x = 0 -> 6931 [] x = 500 -> 9741 [] x = 1000 -> 13133

\* binary_cross_entropy_with_logits: mean over all rows and both columns
BCEWithLogits(rows, targets) ==
    LET elem(j, c) == Softplus(rows[j].val[c]) - targets[j].val[c] * rows[j].val[c] * 10
        rowLoss == [j \in 1..Len(rows) |-> elem(j, 1) + elem(j, 2)]
    IN  SumSeq(rowLoss) \div (2 * Len(rows))

\* correct += (y_hat.argmax() == y).sum().item()
TrainCorrectCCXN(yh, y) == IF Argmax(yh) = y THEN 1 ELSE 0
EvalCorrectCCXN(yh, y) == IF Argmax(yh) = y THEN 1 ELSE 0

\* correct += ((y_hat > threshold_probability_positive_class) == y.bool()).sum().item()
TrainCorrectTemplate(yh, y) ==
    IF (yh > threshold_probability_positive_class) = (y # 0) THEN 1 ELSE 0
EvalCorrectTemplate(yh, y) ==
    IF (yh > threshold_probability_positive_class) = (y # 0) THEN 1 ELSE 0

TrainCorrect(l, yh, y) ==
    IF l = "template" THEN TrainCorrectTemplate(yh, y) ELSE TrainCorrectCCXN(yh, y)
EvalCorrect(l, yh, y) ==
    IF l = "template" THEN EvalCorrectTemplate(yh, y) ELSE EvalCorrectCCXN(yh, y)

\* the threshold comparisons a zip loop makes on one output: [prob, cls]
Decisions(l, yh) ==
    IF l = "template"
    THEN {[prob |-> yh,
           cls |-> IF yh > threshold_probability_positive_class THEN 1 ELSE 0]}
    ELSE {}

\* y_pred = torch.where(y_hat > 0.5, torch.tensor(1), torch.tensor(0))
HSNTrainPred(row) == [c \in 1..2 |-> IF row[c] > 500 THEN 1 ELSE 0]

\* (y_pred == y_hat).all(dim=1): the prediction is compared with y_hat itself
HSNTrainRowCorrect(row) == \A c \in 1..2 : HSNTrainPred(row)[c] * 1000 = row[c]

\* torch.sigmoid on a value of [0, 1]
Sigmoid(x) == CASE x = 0 -> 500 [] x = 500 -> 622 [] x = 1000 -> 731

\* y_pred_test = torch.sigmoid(y_hat_test).ge(0.5).float()
HSNEvalPred(row) == [c \in 1..2 |-> IF Sigmoid(row[c]) >= 500 THEN 1 ELSE 0]

\* torch.eq(y_pred_test[: len(y_test)], y_test).all(dim=1)
HSNEvalRowCorrect(row, label) == \A c \in 1..2 : HSNEvalPred(row)[c] = label[c]

(***************************************************************************)
(* Spec: the training cells, started after the split cell has run.         *)
(***************************************************************************)
LoopFractions == {[num |-> 1, den |-> 5], [num |-> 1, den |-> 2]}

\* for epoch_i in range(1, num_epochs + 1); the attention cell has range(1, 5)
LastEpoch == IF loop = "ccxn_att" THEN AttRangeStop - 1 ELSE num_epochs

Init ==
    /\ loop \in Loops
    /\ \/ /\ loop \in ZipLoops
          /\ test_size \in LoopFractions
          /\ \E n \in 1..MaxSamples : \E lab \in Labellings(n) :
                /\ NTrain(n, test_size) > 0
                /\ lists = MkLists(loop, n, lab)
          /\ train = [nm \in DOMAIN lists |-> TrainPart(lists[nm], test_size)]
          /\ test = [nm \in DOMAIN lists |-> TestPart(lists[nm], test_size)]
       \/ /\ loop = "hsn"
          /\ test_size = [num |-> NumTestNodes, den |-> NumNodes]
          /\ lists = [nm \in {"y"} |-> y_true]
          /\ train = [nm \in DOMAIN lists |-> HSNTrainLabels(lists[nm])]
          /\ test = [nm \in DOMAIN lists |-> HSNTestLabels(lists[nm])]
    /\ num_epochs \in 0..MaxEpochs
    /\ test_interval \in 1..MaxInterval
    /\ pc = "loop"
    /\ LoopIdle /\ PoolIdle

\* what no statement of a training cell assigns; error is set only when an
\* exception leaves the cell
fixedVars == <<loop, num_epochs, test_interval, test_size, lists, train, test, error,
               ci, net, twin>>

runVars == <<loop, num_epochs, test_interval, test_size, lists, train, test, ci, net,
             twin>>

\* epoch_loss = [] at the top of the epoch body
ResetKeepingLosses(old) == old
ResetEpochLoss(old) == <<>>

\* correct = 0 and num_samples = 0 at the top of the epoch body
ResetCounterKept(old) == old
ResetCounter(old) == 0

\* The head of one epoch: the resets and model.train().
StartEpoch ==
    /\ pc = "loop"
    /\ epoch_i < LastEpoch
    /\ epoch_i' = epoch_i + 1
    /\ epoch_loss' = ResetEpochLoss(epoch_loss)
    /\ epoch_log' = NoLog
    /\ IF loop \in ZipLoops
       THEN /\ correct' = ResetCounter(correct)
            /\ num_samples' = ResetCounter(num_samples)
       ELSE UNCHANGED <<num_samples, correct>>
    /\ training' = TRUE
    /\ pos' = 0
    /\ pc' = "train"
    /\ UNCHANGED <<params, opt_state, grad, grad_enabled, out, line, cur>>
    /\ UNCHANGED fixedVars /\ UNCHANGED poolVars

\* what one step of zip(a_train, b_train, ..., y_train) binds
ZipMisaligned(parts, i) ==
    [nm \in DOMAIN parts |->
        IF nm = "y" THEN parts[nm][Len(parts[nm]) + 1 - i] ELSE parts[nm][i]]
Zip(parts, i) == [nm \in DOMAIN parts |-> parts[nm][i]]

(***************************************************************************)
(* The statements of an iteration body, each as a function of the values   *)
(* the body works on; steps lists the statements executed so far.          *)
(***************************************************************************)
Locals ==
    [grad |-> grad, params |-> params, opt_state |-> opt_state,
     correct |-> correct, num_samples |-> num_samples, epoch_loss |-> epoch_loss,
     y_hat |-> 0, loss |-> 0, steps |-> <<>>, backward_from |-> <<>>,
     step_grad |-> <<>>]

\* opt.zero_grad()
zero_grad_skipped(s) == [s EXCEPT !.steps = Append(@, "zero_grad")]
zero_grad(s) == [s EXCEPT !.grad = <<>>, !.steps = Append(@, "zero_grad")]

\* y_hat = model(...)
forward(s, yh) == [s EXCEPT !.y_hat = yh, !.steps = Append(@, "forward")]

\* loss = crit(y_hat, y)
compute_loss(s, l) == [s EXCEPT !.loss = l, !.steps = Append(@, "loss")]

\* correct += ...; num_samples += 1
count_correct_unnumbered(s, add) ==
    [s EXCEPT !.correct = @ + add, !.steps = Append(@, "count")]
count_correct(s, add) ==
    [s EXCEPT !.correct = @ + add, !.num_samples = @ + 1,
              !.steps = Append(@, "count")]

\* loss.backward(): adds the gradient of this loss to what .grad holds
backward(s, on) ==
    [s EXCEPT !.backward_from = s.grad, !.grad = Append(@, on),
              !.steps = Append(@, "backward")]

\* opt.step(): one update of the parameters from what .grad holds
step(s) ==
    [s EXCEPT !.params = @ + 1, !.opt_state = @ + 1, !.step_grad = s.grad,
              !.steps = Append(@, "step")]

\* epoch_loss.append(loss.item())
append_loss(s) ==
    [s EXCEPT !.epoch_loss = Append(@, s.loss), !.steps = Append(@, "record")]

\* HSN: y_pred = torch.where(...); accuracy = (...).float().mean()
accuracy(s) == [s EXCEPT !.steps = Append(@, "accuracy")]

\* the body of the training loop over zip(...)
TrainIteration(s, yh, l, add, on) ==
    append_loss(step(backward(count_correct(
        compute_loss(forward(zero_grad(s), yh), l), add), on)))

\* the body of the test loop over zip(...)
EvalIterationStepping(s, yh, add) == step(count_correct(forward(s, yh), add))
EvalIteration(s, yh, add) == count_correct(forward(s, yh), add)

\* the HSN epoch body up to the accuracy
HSNTrainIteration(s, Y, l, on) ==
    accuracy(step(backward(append_loss(
        compute_loss(forward(zero_grad(s), Y), l)), on)))

\* the HSN evaluation
HSNEvalIteration(s, Y) == accuracy(forward(s, Y))

\* the values an iteration leaves behind
Commit(s) ==
    /\ grad' = s.grad /\ params' = s.params /\ opt_state' = s.opt_state
    /\ correct' = s.correct /\ num_samples' = s.num_samples
    /\ epoch_loss' = s.epoch_loss

\* One training sample: zero_grad, forward, loss, counter, backward, step, record.
TrainSample ==
    /\ pc = "train" /\ loop \in ZipLoops
    /\ pos < Len(train["y"])
    /\ \E yh \in Outputs(loop) :
          LET b == Zip(train, pos + 1)
              y == b["y"].val
              loss == Crit(loop, yh, y)
              add == TrainCorrect(loop, yh, y)
              s == TrainIteration(Locals, yh, loss, add, {b["y"].idx})
          IN  /\ Commit(s)
              /\ epoch_log' =
                    [losses |-> Append(epoch_log.losses, loss),
                     samples |-> Append(epoch_log.samples,
                                        [idx |-> b["y"].idx, ok |-> add = 1])]
              /\ cur' = [pass |-> "train", bound |-> <<b>>, y_hat |-> yh,
                         loss |-> loss,
                         counted |-> IF add = 1 THEN {b["y"].idx} ELSE {},
                         decisions |-> Decisions(loop, yh),
                         steps |-> s.steps, backward_from |-> s.backward_from,
                         step_grad |-> s.step_grad]
    /\ pos' = pos + 1
    /\ UNCHANGED <<epoch_i, training, grad_enabled, out, line, pc>>
    /\ UNCHANGED fixedVars /\ UNCHANGED poolVars

\* correct / num_samples raises ZeroDivisionError when num_samples is 0
ZeroDivisionGuarded(n) == FALSE
ZeroDivision(n) == n = 0

EpochLine(acc) ==
    [kind |-> "Epoch", epoch |-> epoch_i, loss |-> Fmt4(Mean(epoch_loss)), acc |-> acc]

\* if epoch_i % test_interval == 0
TestDue == epoch_i % test_interval = 0

\* with torch.no_grad(): gradient tracking is switched off, the module's mode
\* flag is left as it is
no_grad_mode_eval(mode) == FALSE
no_grad_mode(mode) == mode

\* End of the training pass: train_acc, the Epoch line, the test_interval check
\* and, when it holds, entering torch.no_grad() and resetting the counters.
EpochReport ==
    /\ pc = "train" /\ loop \in ZipLoops
    /\ pos = Len(train["y"])
    /\ ~ZeroDivision(num_samples)
    /\ line' = EpochLine(Fmt4(Ratio(correct, num_samples)))
    /\ out' = Append(out, [kind |-> "Epoch", epoch |-> epoch_i])
    /\ IF TestDue
       THEN /\ pc' = "test"
            /\ grad_enabled' = FALSE
            /\ training' = no_grad_mode(training)
            /\ num_samples' = 0 /\ correct' = 0 /\ pos' = 0
       ELSE /\ pc' = "loop"
            /\ UNCHANGED <<grad_enabled, training, num_samples, correct, pos>>
    /\ UNCHANGED <<epoch_i, epoch_loss, epoch_log, params, opt_state, grad, cur>>
    /\ UNCHANGED fixedVars /\ UNCHANGED poolVars

\* where control goes when the if-block of the evaluation, the last statement
\* of the epoch body, ends: back to the head of the for loop
AfterEvalAgain == "test"
AfterEval == "loop"

\* One test sample: forward and counter only.
TestSample ==
    /\ pc = "test" /\ loop \in ZipLoops
    /\ pos < Len(test["y"])
    /\ \E yh \in Outputs(loop) :
          LET b == Zip(test, pos + 1)
              y == b["y"].val
              add == EvalCorrect(loop, yh, y)
              s == EvalIteration(Locals, yh, add)
          IN  /\ Commit(s)
              /\ cur' = [pass |-> "test", bound |-> <<b>>, y_hat |-> yh,
                         loss |-> cur.loss,
                         counted |-> IF add = 1 THEN {b["y"].idx} ELSE {},
                         decisions |-> Decisions(loop, yh),
                         steps |-> s.steps, backward_from |-> s.backward_from,
                         step_grad |-> s.step_grad]
    /\ pos' = pos + 1
    /\ UNCHANGED <<epoch_i, epoch_log, training, grad_enabled, out, line, pc>>
    /\ UNCHANGED fixedVars /\ UNCHANGED poolVars

\* End of the evaluation pass: test_acc, the Test_acc line, leaving no_grad.
TestReport ==
    /\ pc = "test" /\ loop \in ZipLoops
    /\ pos = Len(test["y"])
    /\ ~ZeroDivision(num_samples)
    /\ line' = [kind |-> "Test_acc", epoch |-> epoch_i, loss |-> 0,
                acc |-> Fmt4(Ratio(correct, num_samples))]
    /\ out' = Append(out, [kind |-> "Test_acc", epoch |-> epoch_i])
    /\ grad_enabled' = TRUE
    /\ pc' = AfterEval
    /\ UNCHANGED <<epoch_i, pos, num_samples, correct, epoch_loss, epoch_log,
                   params, opt_state, grad, training, cur>>
    /\ UNCHANGED fixedVars /\ UNCHANGED poolVars

\* rows of y_hat paired with the label rows: y_hat[-len(y_train):] with y_train,
\* y_pred_test[: len(y_test)] with y_test
HSNPairs(rows, labels) ==
    [j \in 1..Len(labels) |-> [nm \in {"y_hat", "y"} |->
        IF nm = "y" THEN labels[j] ELSE rows[j]]]

\* The HSN epoch body: zero_grad, one forward over the graph, loss on the last
\* len(y_train) rows, backward, step, accuracy over all rows, the Epoch line,
\* the test_interval check.
HSNTrain ==
    /\ pc = "train" /\ loop = "hsn"
    /\ \E Y \in HSNOutputs :
          LET used == Tail_(Y, Len(train["y"]))
              loss == BCEWithLogits(used, train["y"])
              okRows == {Y[k].idx : k \in {j \in 1..Len(Y) : HSNTrainRowCorrect(Y[j].val)}}
              dec == {[prob |-> Y[k].val[c], cls |-> HSNTrainPred(Y[k].val)[c]] :
                         k \in 1..Len(Y), c \in 1..2}
              s == HSNTrainIteration(Locals, Y, loss, {used[j].idx : j \in 1..Len(used)})
          IN  /\ Commit(s)
              /\ epoch_log' =
                    [losses |-> Append(epoch_log.losses, loss),
                     samples |-> [j \in 1..Len(used) |->
                                    [idx |-> used[j].idx, ok |-> used[j].idx \in okRows]]]
              /\ cur' = [pass |-> "train", bound |-> HSNPairs(used, train["y"]),
                         y_hat |-> Y, loss |-> loss, counted |-> okRows,
                         decisions |-> dec,
                         steps |-> s.steps, backward_from |-> s.backward_from,
                         step_grad |-> s.step_grad]
              /\ line' = [kind |-> "Epoch", epoch |-> epoch_i,
                          loss |-> Fmt4(Mean(epoch_loss')),
                          acc |-> Fmt4(Ratio(Cardinality(okRows), Len(Y)))]
    /\ out' = Append(out, [kind |-> "Epoch", epoch |-> epoch_i])
    /\ IF TestDue
       THEN pc' = "test" /\ grad_enabled' = FALSE /\ training' = no_grad_mode(training)
       ELSE pc' = "loop" /\ UNCHANGED <<grad_enabled, training>>
    /\ UNCHANGED <<epoch_i, pos>>
    /\ UNCHANGED fixedVars /\ UNCHANGED poolVars

\* The HSN evaluation: one forward, sigmoid and ge(0.5), accuracy on the first
\* len(y_test) rows, the Test_acc line.
HSNTest ==
    /\ pc = "test" /\ loop = "hsn"
    /\ \E Y \in HSNOutputs :
          LET used == Head_(Y, Len(test["y"]))
              okRows == {used[k].idx : k \in {j \in 1..Len(used) :
                            HSNEvalRowCorrect(used[j].val, test["y"][j].val)}}
              dec == {[prob |-> Sigmoid(Y[k].val[c]), cls |-> HSNEvalPred(Y[k].val)[c]] :
                         k \in 1..Len(Y), c \in 1..2}
              s == HSNEvalIteration(Locals, Y)
          IN  /\ Commit(s)
              /\ cur' = [pass |-> "test", bound |-> HSNPairs(used, test["y"]),
                         y_hat |-> Y, loss |-> cur.loss, counted |-> okRows,
                         decisions |-> dec,
                         steps |-> s.steps, backward_from |-> s.backward_from,
                         step_grad |-> s.step_grad]
              /\ line' = [kind |-> "Test_acc", epoch |-> epoch_i, loss |-> 0,
                          acc |-> Fmt4(Ratio(Cardinality(okRows), Len(used)))]
    /\ out' = Append(out, [kind |-> "Test_acc", epoch |-> epoch_i])
    /\ grad_enabled' = TRUE
    /\ pc' = AfterEval
    /\ UNCHANGED <<epoch_i, pos, epoch_log, training>>
    /\ UNCHANGED fixedVars /\ UNCHANGED poolVars

\* range(...) is exhausted: the cell ends.
Finish ==
    /\ pc = "loop"
    /\ epoch_i >= LastEpoch
    /\ pc' = "done"
    /\ UNCHANGED <<epoch_i, pos, num_samples, correct, epoch_loss, epoch_log,
                   params, opt_state, grad, training, grad_enabled, out, line, cur>>
    /\ UNCHANGED fixedVars /\ UNCHANGED poolVars

Next ==
    \/ StartEpoch
    \/ TrainSample
    \/ EpochReport
    \/ TestSample
    \/ TestReport
    \/ HSNTrain
    \/ HSNTest
    \/ Finish

Spec == Init /\ [][Next]_vars

\* the interpreter keeps executing the cell: a step that can be taken is taken
SpecLive == Spec /\ WF_vars(Next)

(***************************************************************************)
(* SpecEmpty: the training cells started on splits that may be empty (the  *)
(* cells take x_*_train, y_train, x_*_test, y_test as they find them).     *)
(***************************************************************************)
InitEmpty ==
    /\ loop \in Loops
    /\ \/ /\ loop \in ZipLoops
          /\ test_size = [num |-> 1, den |-> 5]
          /\ \E n \in 0..MaxSamples : \E lab \in Labellings(n) : \E k \in 0..n :
                /\ lists = MkLists(loop, n, lab)
                /\ train = [nm \in DOMAIN lists |-> SubSeq(lists[nm], 1, k)]
                /\ test = [nm \in DOMAIN lists |-> SubSeq(lists[nm], k + 1, n)]
       \/ /\ loop = "hsn"
          /\ test_size = [num |-> NumTestNodes, den |-> NumNodes]
          /\ lists = [nm \in {"y"} |-> y_true]
          /\ train = [nm \in DOMAIN lists |-> HSNTrainLabels(lists[nm])]
          /\ test = [nm \in DOMAIN lists |-> HSNTestLabels(lists[nm])]
    /\ num_epochs \in 0..MaxEpochs
    /\ test_interval \in 1..MaxInterval
    /\ pc = "loop"
    /\ LoopIdle /\ PoolIdle

\* train_acc = correct / num_samples with num_samples = 0
TrainAccRaise ==
    /\ pc = "train" /\ loop \in ZipLoops
    /\ pos = Len(train["y"])
    /\ ZeroDivision(num_samples)
    /\ error' = [at |-> "train_acc", epoch |-> epoch_i, idx |-> 0]
    /\ pc' = "aborted"
    /\ UNCHANGED loopVars /\ UNCHANGED runVars /\ UNCHANGED poolVars

\* test_acc = correct / num_samples with num_samples = 0; the exception
\* leaves the torch.no_grad() block
TestAccRaise ==
    /\ pc = "test" /\ loop \in ZipLoops
    /\ pos = Len(test["y"])
    /\ ZeroDivision(num_samples)
    /\ error' = [at |-> "test_acc", epoch |-> epoch_i, idx |-> 0]
    /\ grad_enabled' = TRUE
    /\ pc' = "aborted"
    /\ UNCHANGED <<epoch_i, pos, num_samples, correct, epoch_loss, epoch_log,
                   params, opt_state, grad, training, out, line, cur>>
    /\ UNCHANGED runVars /\ UNCHANGED poolVars

NextEmpty == Next \/ TrainAccRaise \/ TestAccRaise

SpecEmpty == InitEmpty /\ [][NextEmpty]_vars

(***************************************************************************)
(* SpecFail: the training cells when model(...) or loss.backward() may     *)
(* raise.  No cell has a try/except: the exception leaves the cell.        *)
(***************************************************************************)
RaiseSites == {"forward", "backward"}

\* the statements of a training iteration that have run when the statement
\* at raises
FailingIterationCompleted(s, at, yh, l, add) == TrainIteration(s, yh, l, add, {})
FailingIteration(s, at, yh, l, add) ==
    IF at = "forward" THEN zero_grad(s)
    ELSE count_correct(compute_loss(forward(zero_grad(s), yh), l), add)

HSNFailingIteration(s, at, Y, l) ==
    IF at = "forward" THEN zero_grad(s)
    ELSE append_loss(compute_loss(forward(zero_grad(s), Y), l))

\* a backward pass that raises may already have written some gradients
PartialGrads(at, on) == IF at = "backward" THEN {<<>>, <<on>>} ELSE {<<>>}

\* The forward or backward pass of a training sample raises.
TrainRaise ==
    /\ pc = "train" /\ loop \in ZipLoops
    /\ pos < Len(train["y"])
    /\ \E at \in RaiseSites : \E yh \in Outputs(loop) :
          LET b == Zip(train, pos + 1)
              y == b["y"].val
              loss == Crit(loop, yh, y)
              add == TrainCorrect(loop, yh, y)
              s == FailingIteration(Locals, at, yh, loss, add)
          IN  /\ \E g \in PartialGrads(at, {b["y"].idx}) : Commit([s EXCEPT !.grad = g])
              /\ cur' = [pass |-> "train", bound |-> <<b>>, y_hat |-> s.y_hat,
                         loss |-> s.loss, counted |-> {}, decisions |-> {},
                         steps |-> s.steps, backward_from |-> s.backward_from,
                         step_grad |-> s.step_grad]
              /\ error' = [at |-> at, epoch |-> epoch_i, idx |-> b["y"].idx]
    /\ pc' = "aborted"
    /\ UNCHANGED <<epoch_i, pos, epoch_log, training, grad_enabled, out, line>>
    /\ UNCHANGED runVars /\ UNCHANGED poolVars

\* The forward or backward pass of an HSN epoch raises.
HSNTrainRaise ==
    /\ pc = "train" /\ loop = "hsn"
    /\ \E at \in RaiseSites : \E Y \in HSNOutputs :
          LET used == Tail_(Y, Len(train["y"]))
              loss == BCEWithLogits(used, train["y"])
              s == HSNFailingIteration(Locals, at, Y, loss)
          IN  /\ \E g \in PartialGrads(at, {used[j].idx : j \in 1..Len(used)}) :
                    Commit([s EXCEPT !.grad = g])
              /\ cur' = [pass |-> "train", bound |-> <<>>, y_hat |-> s.y_hat,
                         loss |-> s.loss, counted |-> {}, decisions |-> {},
                         steps |-> s.steps, backward_from |-> s.backward_from,
                         step_grad |-> s.step_grad]
              /\ error' = [at |-> at, epoch |-> epoch_i, idx |-> 0]
    /\ pc' = "aborted"
    /\ UNCHANGED <<epoch_i, pos, epoch_log, training, grad_enabled, out, line>>
    /\ UNCHANGED runVars /\ UNCHANGED poolVars

NextFail == Next \/ TrainRaise \/ HSNTrainRaise

SpecFail == Init /\ [][NextFail]_vars

(***************************************************************************)
(* SpecPool: the pooling at the end of CCXN.forward.  A tensor entry is a  *)
(* quotient [num, den] in lowest terms with den > 0; NaN is 0/0.           *)
(***************************************************************************)
NaN == [num |-> 0, den |-> 0]
IsNaN(q) == q.den = 0
Whole(k) == [num |-> k, den |-> 1]

Abs(k) == IF k < 0 THEN -k ELSE k

RECURSIVE GCD(_, _)
GCD(a, b) == IF b = 0 THEN a ELSE GCD(b, a % b)

Norm(q) ==
    LET g == GCD(Abs(q.num), q.den)
    IN  [num |-> q.num \div g, den |-> q.den \div g]

\* IEEE addition and division: NaN in, NaN out; 0 / 0 is NaN
RatAdd(a, b) ==
    IF IsNaN(a) \/ IsNaN(b) THEN NaN
    ELSE Norm([num |-> a.num * b.den + b.num * a.den, den |-> a.den * b.den])

RatDivInt(a, k) ==
    IF IsNaN(a) \/ k = 0 THEN NaN ELSE Norm([num |-> a.num, den |-> a.den * k])

RECURSIVE RatSum(_)
RatSum(s) == IF s = <<>> THEN Whole(0) ELSE RatAdd(s[1], RatSum(Tail(s)))

Column(m, c) == [i \in 1..Len(m) |-> m[i][c]]

\* torch.nanmean(x, dim=0): per column, the sum of the entries that are not NaN
\* over their number
NanMean(m) ==
    [c \in 1..num_classes |->
        LET kept == SelectSeq(Column(m, c), LAMBDA v : ~IsNaN(v))
        IN  RatDivInt(RatSum(kept), Len(kept))]

\* mean[torch.isnan(mean)] = 0
NanToZeroSkipped(v) == v
NanToZeroFirstOnly(v) ==
    [c \in DOMAIN v |->
        IF IsNaN(v[c]) /\ (\A b \in DOMAIN v : b < c => ~IsNaN(v[b]))
        THEN Whole(0) ELSE v[c]]
NanToZero(v) == [c \in DOMAIN v |-> IF IsNaN(v[c]) THEN Whole(0) ELSE v[c]]

Ranks == {0, 1, 2}

PoolRows == {<<Whole(1), Whole(-1)>>, <<Whole(2), Whole(0)>>, <<NaN, Whole(3)>>}

RECURSIVE SeqsUpTo(_, _)
SeqsUpTo(S, k) ==
    IF k = 0 THEN {<<>>}
    ELSE LET shorter == SeqsUpTo(S, k - 1)
         IN  shorter \cup {Append(t, e) : t \in {u \in shorter : Len(u) = k - 1}, e \in S}

InitPool ==
    /\ loop = "ccxn"
    /\ num_epochs = 0 /\ test_interval = 1
    /\ test_size = [num |-> 1, den |-> 5]
    /\ lists = <<>> /\ train = <<>> /\ test = <<>>
    /\ LoopIdle
    /\ x_rank \in [Ranks -> SeqsUpTo(PoolRows, MaxRows)]
    /\ rank_mean = <<>> /\ pooled = <<>>
    /\ pc = "forward"

\* The three nanmean / isnan pairs and the returned sum.
CCXNForward ==
    /\ pc = "forward"
    /\ LET two_dimensional_cells_mean == NanToZero(NanMean(x_rank[2]))
           one_dimensional_cells_mean == NanToZero(NanMean(x_rank[1]))
           zero_dimensional_cells_mean == NanToZero(NanMean(x_rank[0]))
       IN  /\ rank_mean' = [r \in Ranks |->
                              CASE r = 2 -> two_dimensional_cells_mean
                                [] r = 1 -> one_dimensional_cells_mean
                                [] r = 0 -> zero_dimensional_cells_mean]
           /\ pooled' = [c \in 1..num_classes |->
                           RatAdd(RatAdd(two_dimensional_cells_mean[c],
                                         one_dimensional_cells_mean[c]),
                                  zero_dimensional_cells_mean[c])]
    /\ pc' = "returned"
    /\ UNCHANGED x_rank
    /\ UNCHANGED fixedVars /\ UNCHANGED loopVars

NextPool == CCXNForward

SpecPool == InitPool /\ [][NextPool]_vars

(***************************************************************************)
(* SpecCI: the "Test" workflow and its one job, pytest.  A changed path is *)
(* the sequence of its components.                                         *)
(***************************************************************************)
Events == {"push", "pull_request"}
Branches == {"main", "github-actions-test", "dev"}
ChangedPaths ==
    {<<"docs", "index.rst">>, <<"README.md">>, <<"LICENSE.txt">>, <<".gitignore">>,
     <<"topomodelx", "nn.py">>, <<"test", "README.md">>}

\* on.push.branches / on.pull_request.branches
BranchFilter(event) ==
    IF event = "push" THEN {"main", "github-actions-test"} ELSE {"main"}

\* paths-ignore: 'docs/**', 'README.md', 'LICENSE.txt', '.gitignore'
PathIgnored(path) ==
    \/ Len(path) >= 2 /\ path[1] = "docs"
    \/ path \in {<<"README.md">>, <<"LICENSE.txt">>, <<".gitignore">>}

\* the workflow runs unless the branch is filtered out or every changed path
\* is ignored
Triggered(c) ==
    /\ c.branch \in BranchFilter(c.event)
    /\ \E path \in c.paths : ~PathIgnored(path)

\* jobs.pytest.steps
StepNames ==
    <<"checkout", "setup_python", "install_pytorch", "install_package", "pytest",
      "upload_coverage">>

\* with: fail_ci_if_error: false
fail_ci_if_error_set == TRUE
fail_ci_if_error == FALSE

\* the conclusion of a step from what happened in it: an error fails the
\* step, except that the codecov action reports its errors as failures only
\* when fail_ci_if_error is set
StepResult(name, outcome) ==
    IF outcome = "error" /\ (name # "upload_coverage" \/ fail_ci_if_error)
    THEN "failure" ELSE "success"

JobFailed(c) == \E j \in DOMAIN c.ran : c.ran[j].result = "failure"

InitCI ==
    /\ loop = "ccxn"
    /\ num_epochs = 0 /\ test_interval = 1
    /\ test_size = [num |-> 1, den |-> 5]
    /\ lists = <<>> /\ train = <<>> /\ test = <<>>
    /\ epoch_i = 0 /\ pos = 0 /\ num_samples = 0 /\ correct = 0
    /\ epoch_loss = <<>> /\ params = 0 /\ opt_state = 0 /\ grad = <<>>
    /\ training = TRUE /\ grad_enabled = TRUE
    /\ out = <<>> /\ line = NoLine /\ cur = NoCur /\ epoch_log = NoLog
    /\ error = NoError /\ net = NoNet /\ twin = NoTwin
    /\ PoolIdle
    /\ pc = "workflow"
    /\ \E e \in Events : \E b \in Branches : \E ps \in (SUBSET ChangedPaths) \ {{}} :
          ci = [event |-> e, branch |-> b, paths |-> ps, job |-> "none", ran |-> <<>>]

CIFrame ==
    /\ UNCHANGED <<loop, num_epochs, test_interval, test_size, lists, train, test,
                   error, pc, net, twin>>
    /\ UNCHANGED loopVars /\ UNCHANGED poolVars

\* The event passes the filters: the job is queued and starts.
WorkflowRun ==
    /\ ci.job = "none" /\ Triggered(ci)
    /\ ci' = [ci EXCEPT !.job = "running"]
    /\ CIFrame

\* The event is filtered out: no run.
WorkflowSkipped ==
    /\ ci.job = "none" /\ ~Triggered(ci)
    /\ ci' = [ci EXCEPT !.job = "not_run"]
    /\ CIFrame

\* The next step runs (no step has an if:, so the default success() applies).
RunStep ==
    /\ ci.job = "running" /\ Len(ci.ran) < Len(StepNames) /\ ~JobFailed(ci)
    /\ \E outcome \in {"ok", "error"} :
          LET name == StepNames[Len(ci.ran) + 1]
          IN  ci' = [ci EXCEPT !.ran = Append(@, [name |-> name, outcome |-> outcome,
                                                 result |-> StepResult(name, outcome)])]
    /\ CIFrame

\* After a failed step the remaining steps are skipped.
SkipStep ==
    /\ ci.job = "running" /\ Len(ci.ran) < Len(StepNames) /\ JobFailed(ci)
    /\ ci' = [ci EXCEPT !.ran = Append(@, [name |-> StepNames[Len(ci.ran) + 1],
                                           outcome |-> "none", result |-> "skipped"])]
    /\ CIFrame

\* The job concludes.
JobConclude ==
    /\ ci.job = "running" /\ Len(ci.ran) = Len(StepNames)
    /\ ci' = [ci EXCEPT !.job = IF JobFailed(ci) THEN "failure" ELSE "success"]
    /\ CIFrame

NextCI == WorkflowRun \/ WorkflowSkipped \/ RunStep \/ SkipStep \/ JobConclude

SpecCI == InitCI /\ [][NextCI]_vars

(***************************************************************************)
(* SpecTwin: two runs of one training cell side by side.  The second run   *)
(* (twin) starts from the same parameters, reads the same samples and the  *)
(* same training labels, and has other labels in its test split.  It       *)
(* repeats each statement of the first run right after it; model(...) is a *)
(* function of the parameters and the sample, so it returns the first      *)
(* run's output whenever the two runs hold the same parameters.            *)
(***************************************************************************)
\* the other label of a sample: 1 - y for a class, the swapped row for HSN
OtherLabel(l, v) == IF l = "hsn" THEN <<v[2], v[1]>> ELSE 1 - v

\* the test labels the second run may have: the same samples, at least one
\* label changed
TwinLabels(l, ys) ==
    {t \in [1..Len(ys) -> UNION {{ys[j], [ys[j] EXCEPT !.val = OtherLabel(l, @)]} :
                                    j \in 1..Len(ys)}] :
        /\ \A j \in 1..Len(ys) : t[j].idx = ys[j].idx
        /\ t # ys}

InSync == twin.pc = pc /\ twin.epoch_i = epoch_i /\ twin.pos = pos

\* the values the body of the second run works on
TwinLocals ==
    [grad |-> twin.grad, params |-> twin.params, opt_state |-> twin.opt_state,
     correct |-> twin.correct, num_samples |-> twin.num_samples,
     epoch_loss |-> twin.epoch_loss,
     y_hat |-> 0, loss |-> 0, steps |-> <<>>, backward_from |-> <<>>,
     step_grad |-> <<>>]

TwinCommit(t, s) ==
    [t EXCEPT !.grad = s.grad, !.params = s.params, !.opt_state = s.opt_state,
              !.correct = s.correct, !.num_samples = s.num_samples,
              !.epoch_loss = s.epoch_loss]

\* what model(...) may return in the second run, when the first run computed
\* cur.y_hat from parameters that had seen before updates
TwinForward(before, all) ==
    IF twin.steps_agree /\ twin.params = before THEN {cur.y_hat} ELSE all

TwinFrame ==
    /\ UNCHANGED <<loop, num_epochs, test_interval, test_size, lists, train, test,
                   error, ci, net, pc>>
    /\ UNCHANGED loopVars /\ UNCHANGED poolVars

\* The second run is set up: the state of the first before its first epoch,
\* with other test labels.
TwinStart ==
    /\ twin.pc = "none" /\ pc = "loop" /\ epoch_i = 0
    /\ \E t \in TwinLabels(loop, test["y"]) :
          twin' = [twin EXCEPT !.y_test = t, !.pc = "loop", !.params = params,
                               !.opt_state = opt_state, !.grad = grad,
                               !.correct = correct, !.num_samples = num_samples,
                               !.epoch_loss = epoch_loss]
    /\ TwinFrame

TwinStartEpoch ==
    /\ twin.pc = "loop" /\ pc = "train"
    /\ twin' = [twin EXCEPT !.pc = "train", !.epoch_i = @ + 1, !.pos = 0,
                            !.epoch_loss = ResetEpochLoss(@),
                            !.correct = IF loop \in ZipLoops
                                        THEN ResetCounter(@) ELSE @,
                            !.num_samples = IF loop \in ZipLoops
                                            THEN ResetCounter(@) ELSE @]
    /\ TwinFrame

TwinTrainSample ==
    /\ twin.pc = "train" /\ pc = "train" /\ loop \in ZipLoops
    /\ twin.pos < pos
    /\ \E yh \in TwinForward(params - 1, Outputs(loop)) :
          LET b == Zip(train, twin.pos + 1)
              y == b["y"].val
              loss == Crit(loop, yh, y)
              add == TrainCorrect(loop, yh, y)
              s == TrainIteration(TwinLocals, yh, loss, add, {b["y"].idx})
          IN  twin' = [TwinCommit(twin, s) EXCEPT
                          !.pos = @ + 1,
                          !.steps_agree = /\ @
                                          /\ loss = cur.loss
                                          /\ s.step_grad = cur.step_grad]
    /\ TwinFrame

TwinEpochReport ==
    /\ twin.pc = "train" /\ pc \in {"test", "loop"} /\ loop \in ZipLoops
    /\ ~ZeroDivision(twin.num_samples)
    /\ LET report == [kind |-> "Epoch", epoch |-> twin.epoch_i,
                      loss |-> Fmt4(Mean(twin.epoch_loss)),
                      acc |-> Fmt4(Ratio(twin.correct, twin.num_samples))]
       IN  twin' = IF twin.epoch_i % test_interval = 0
                   THEN [twin EXCEPT !.line = report, !.pc = "test",
                                     !.num_samples = 0, !.correct = 0, !.pos = 0]
                   ELSE [twin EXCEPT !.line = report, !.pc = "loop"]
    /\ TwinFrame

TwinTestSample ==
    /\ twin.pc = "test" /\ pc = "test" /\ loop \in ZipLoops
    /\ twin.pos < pos
    /\ \E yh \in TwinForward(params, Outputs(loop)) :
          LET y == twin.y_test[twin.pos + 1].val
              add == EvalCorrect(loop, yh, y)
              s == EvalIteration(TwinLocals, yh, add)
          IN  twin' = [TwinCommit(twin, s) EXCEPT
                          !.pos = @ + 1,
                          !.steps_agree = @ /\ s.params = params]
    /\ TwinFrame

TwinTestReport ==
    /\ twin.pc = "test" /\ pc = "loop" /\ loop \in ZipLoops
    /\ ~ZeroDivision(twin.num_samples)
    /\ LET report == [kind |-> "Test_acc", epoch |-> twin.epoch_i, loss |-> 0,
                      acc |-> Fmt4(Ratio(twin.correct, twin.num_samples))]
       IN  twin' = [twin EXCEPT !.line = report, !.pc = AfterEval,
                                !.test_differed = @ \/ report # line]
    /\ TwinFrame

TwinHSNTrain ==
    /\ twin.pc = "train" /\ pc \in {"test", "loop"} /\ loop = "hsn"
    /\ \E Y \in TwinForward(params - 1, HSNOutputs) :
          LET used == Tail_(Y, Len(train["y"]))
              loss == BCEWithLogits(used, train["y"])
              okRows == {Y[k].idx : k \in {j \in 1..Len(Y) : HSNTrainRowCorrect(Y[j].val)}}
              s == HSNTrainIteration(TwinLocals, Y, loss,
                                     {used[j].idx : j \in 1..Len(used)})
              report == [kind |-> "Epoch", epoch |-> twin.epoch_i,
                         loss |-> Fmt4(Mean(s.epoch_loss)),
                         acc |-> Fmt4(Ratio(Cardinality(okRows), Len(Y)))]
          IN  twin' = [TwinCommit(twin, s) EXCEPT
                          !.line = report,
                          !.pc = IF twin.epoch_i % test_interval = 0
                                 THEN "test" ELSE "loop",
                          !.steps_agree = /\ @
                                          /\ loss = cur.loss
                                          /\ s.step_grad = cur.step_grad]
    /\ TwinFrame

TwinHSNTest ==
    /\ twin.pc = "test" /\ pc = "loop" /\ loop = "hsn"
    /\ \E Y \in TwinForward(params, HSNOutputs) :
          LET used == Head_(Y, Len(twin.y_test))
              okRows == {used[k].idx : k \in {j \in 1..Len(used) :
                            HSNEvalRowCorrect(used[j].val, twin.y_test[j].val)}}
              s == HSNEvalIteration(TwinLocals, Y)
              report == [kind |-> "Test_acc", epoch |-> twin.epoch_i, loss |-> 0,
                         acc |-> Fmt4(Ratio(Cardinality(okRows), Len(used)))]
          IN  twin' = [TwinCommit(twin, s) EXCEPT
                          !.line = report, !.pc = AfterEval,
                          !.steps_agree = @ /\ s.params = params,
                          !.test_differed = @ \/ report # line]
    /\ TwinFrame

TwinFinish ==
    /\ twin.pc = "loop" /\ pc = "done"
    /\ twin' = [twin EXCEPT !.pc = "done"]
    /\ TwinFrame

NextTwin ==
    \/ TwinStart
    \/ InSync /\ Next
    \/ TwinStartEpoch
    \/ TwinTrainSample
    \/ TwinEpochReport
    \/ TwinTestSample
    \/ TwinTestReport
    \/ TwinHSNTrain
    \/ TwinHSNTest
    \/ TwinFinish

\* the longest runs: a run of fewer epochs is a prefix of one of these
InitTwin == Init /\ num_epochs = MaxEpochs

SpecTwin == InitTwin /\ [][NextTwin]_vars

(***************************************************************************)
(* SpecModel: construction of the model object and of its optimizer, then  *)
(* optimizer steps.  A parameter is named by the attribute that owns it    *)
(* and, for a layer, its index in the list.                                *)
(***************************************************************************)
LayerParam(i) == [owner |-> "layers", index |-> i]
HeadParam(name) == [owner |-> name, index |-> 0]

Heads(l) == IF l \in {"ccxn", "ccxn_att"} THEN {"lin_0", "lin_1", "lin_2"} ELSE {"linear"}

\* the values __init__ assigns to attributes
ModuleList(layers) ==
    [kind |-> "ModuleList", params |-> {layers[i] : i \in DOMAIN layers}]
PyList(layers) ==
    [kind |-> "list", params |-> {layers[i] : i \in DOMAIN layers}]
Linear(name) == [kind |-> "Module", params |-> {HeadParam(name)}]

\* the attribute assignments of __init__, in source order
Assignments(l, layers) ==
    IF l \in {"ccxn", "ccxn_att"}
    THEN <<[attr |-> "layers", value |-> ModuleList(layers)],
           [attr |-> "lin_0", value |-> Linear("lin_0")],
           [attr |-> "lin_1", value |-> Linear("lin_1")],
           [attr |-> "lin_2", value |-> Linear("lin_2")]>>
    ELSE IF l = "template"
    THEN <<[attr |-> "layers", value |-> ModuleList(layers)],
           [attr |-> "linear", value |-> Linear("linear")]>>
    ELSE <<[attr |-> "linear", value |-> Linear("linear")],
           [attr |-> "layers", value |-> PyList(layers)]>>

\* torch.nn.Module.__setattr__: a Module value is registered as a submodule,
\* any other value is an ordinary attribute
SetAttr(n, a) ==
    IF a.value.kind \in {"Module", "ModuleList"}
    THEN [n EXCEPT !.children = @ \cup {a}, !.assigned = @ + 1]
    ELSE [n EXCEPT !.attrs = @ \cup {a}, !.assigned = @ + 1]

\* model.parameters(): the parameters of the registered submodules
Parameters(n) == UNION {c.value.params : c \in n.children}

\* the parameters forward() computes with: for layer in self.layers, the heads
ForwardUses(n) == UNION {c.value.params : c \in n.children \cup n.attrs}

InitModel ==
    /\ loop \in Loops
    /\ num_epochs = 0 /\ test_interval = 1
    /\ test_size = [num |-> 1, den |-> 5]
    /\ lists = <<>> /\ train = <<>> /\ test = <<>>
    /\ epoch_i = 0 /\ pos = 0 /\ num_samples = 0 /\ correct = 0
    /\ epoch_loss = <<>> /\ params = 0 /\ opt_state = 0 /\ grad = <<>>
    /\ training = TRUE /\ grad_enabled = TRUE
    /\ out = <<>> /\ line = NoLine /\ cur = NoCur /\ epoch_log = NoLog
    /\ error = NoError /\ ci = NoCI /\ twin = NoTwin
    /\ PoolIdle
    /\ pc = "model_init"
    /\ \E n \in 1..MaxLayers : net = [NoNet EXCEPT !.n_layers = n]

ModelFrame ==
    /\ UNCHANGED <<loop, num_epochs, test_interval, test_size, lists, train, test,
                   error, ci, twin>>
    /\ UNCHANGED loopVars /\ UNCHANGED poolVars

\* for _ in range(n_layers): layers.append(...Layer(...))
AppendLayer ==
    /\ pc = "model_init" /\ Len(net.layers) < net.n_layers
    /\ net' = [net EXCEPT !.layers = Append(@, LayerParam(Len(net.layers)))]
    /\ pc' = pc
    /\ ModelFrame

\* the next self.<attr> = <value> of __init__
SetAttribute ==
    /\ pc = "model_init" /\ Len(net.layers) = net.n_layers
    /\ net.assigned < Len(Assignments(loop, net.layers))
    /\ net' = SetAttr(net, Assignments(loop, net.layers)[net.assigned + 1])
    /\ pc' = pc
    /\ ModelFrame

\* opt = torch.optim.Adam(model.parameters(), lr=...)
MakeOptimizer ==
    /\ pc = "model_init" /\ Len(net.layers) = net.n_layers
    /\ net.assigned = Len(Assignments(loop, net.layers))
    /\ net' = [net EXCEPT !.opt = Parameters(net),
                          !.updates = [q \in ForwardUses(net) |-> 0]]
    /\ pc' = "model_train"
    /\ ModelFrame

\* zero_grad, forward, backward, opt.step(): every parameter forward() used
\* has a gradient, the optimizer updates the parameters it was given
OptimizerStep ==
    /\ pc = "model_train" /\ net.steps < MaxSteps
    /\ net' = [net EXCEPT !.steps = @ + 1,
                          !.updates = [q \in DOMAIN @ |->
                                          IF q \in net.opt THEN @[q] + 1 ELSE @[q]]]
    /\ pc' = pc
    /\ ModelFrame

NextModel == AppendLayer \/ SetAttribute \/ MakeOptimizer \/ OptimizerStep

SpecModel == InitModel /\ [][NextModel]_vars

(***************************************************************************)
(* Properties of the training cells (checked under Spec).                  *)
(***************************************************************************)
TestLines == {j \in DOMAIN out : out[j].kind = "Test_acc"}
EpochLines == {j \in DOMAIN out : out[j].kind = "Epoch"}

\* the epoch body of epoch out[j].epoch has been left
EpochOver(j) == j < Len(out) \/ pc \in {"loop", "done"}

\* C1: an evaluation pass runs after epoch k exactly when k % test_interval = 0,
\* its Test_acc line directly follows that epoch's Epoch line, and a finished
\* run has made floor(num_epochs / test_interval) evaluation passes.
C1_EvalEveryInterval ==
    /\ \A j \in TestLines :
          /\ j > 1
          /\ out[j - 1].kind = "Epoch"
          /\ out[j - 1].epoch = out[j].epoch
          /\ out[j].epoch % test_interval = 0
    /\ \A j \in EpochLines :
          (EpochOver(j) /\ out[j].epoch % test_interval = 0 /\ j < Len(out))
             => out[j + 1].kind = "Test_acc"
    /\ \A j \in EpochLines :
          (pc \in {"loop", "done"} /\ out[j].epoch % test_interval = 0) => j < Len(out)
    /\ pc = "done" => Cardinality(TestLines) = num_epochs \div test_interval

\* C2: with num_epochs = 0 nothing is written and no optimizer step is taken,
\* so the parameters stay the initial ones.
C2_ZeroEpochsNoEffect ==
    num_epochs = 0 => (out = <<>> /\ params = 0 /\ line = NoLine)

\* C4: every comparison of a predicted probability with the 0.5 threshold,
\* in a training pass or an evaluation pass, is strict: exactly 0.5 is the
\* negative class, above 0.5 the positive class.
C4_StrictThreshold ==
    \A d \in cur.decisions :
        /\ d.prob = 500 => d.cls = 0
        /\ d.prob > 500 => d.cls = 1

\* the class the task's decision rule gives: argmax of the logits, or the
\* probability (each column of the row, for HSN) thresholded at 0.5
RuleClass(yh) ==
    IF loop = "template" THEN (IF yh > 500 THEN 1 ELSE 0)
    ELSE IF loop = "hsn" THEN [c \in 1..2 |-> IF yh[c] > 500 THEN 1 ELSE 0]
    ELSE (IF yh[2] > yh[1] THEN 1 ELSE 0)

\* the output the model gave for the sample bound as s
OutputFor(s) == IF loop = "hsn" THEN s["y_hat"].val ELSE cur.y_hat

\* v is a nearest number of ten-thousandths to num / den
Nearest(v, num, den) ==
    LET diff == v * den - num
    IN  2 * (IF diff < 0 THEN -diff ELSE diff) <= den

EpochLineFresh == line.kind = "Epoch" /\ line.epoch = epoch_i

OkCount == Cardinality({j \in DOMAIN epoch_log.samples : epoch_log.samples[j].ok})

\* C5: a training sample is counted as correct exactly when the class given by
\* the decision rule equals its label, and the Train_acc of an Epoch line is
\* (training samples counted) / (training samples processed) of that epoch.
C5_TrainAccuracy ==
    /\ cur.pass = "train" =>
          \A j \in DOMAIN cur.bound :
              LET s == cur.bound[j]
              IN  (s["y"].idx \in cur.counted) <=> (RuleClass(OutputFor(s)) = s["y"].val)
    /\ EpochLineFresh =>
          /\ Len(epoch_log.samples) > 0
          /\ Nearest(line.acc, OkCount * Fmt4Scale, Len(epoch_log.samples))

\* whether the training pass of the same loop counts output yh for label y
TrainingCounts(yh, y) ==
    IF loop = "hsn" THEN HSNTrainRowCorrect(yh) ELSE TrainCorrect(loop, yh, y) = 1

\* C6: the evaluation pass counts a sample as correct exactly when the training
\* pass of the same loop would count it, for the same output and label.
C6_EvalSameRule ==
    cur.pass = "test" =>
        \A j \in DOMAIN cur.bound :
            LET s == cur.bound[j]
            IN  (s["y"].idx \in cur.counted) <=> TrainingCounts(OutputFor(s), s["y"].val)

\* C7: the loss on an Epoch line is the arithmetic mean (shown with four
\* decimals) of exactly the losses computed in that epoch's training pass;
\* losses 1, 2, 3 give 2.
C7_MeanLoss ==
    /\ EpochLineFresh =>
          /\ Len(epoch_log.losses) > 0
          /\ Nearest(line.loss, SumSeq(epoch_log.losses), Len(epoch_log.losses))
    /\ Fmt4(Mean(<<10000, 20000, 30000>>)) = 20000

\* an Epoch line of a second or later epoch, after an evaluation pass, whose
\* training pass recorded several different losses
C7_Witness ==
    /\ EpochLineFresh /\ epoch_i >= 2
    /\ TestLines # {}
    /\ Len(epoch_log.losses) >= 2
    /\ epoch_log.losses[1] # epoch_log.losses[2]

\* C9: what an iteration binds together comes from one original sample index,
\* each part from its own list, and a pass visits its split in increasing
\* original index.
C9_IndexAligned ==
    cur.pass # "none" =>
        /\ \A j \in DOMAIN cur.bound : \A nm \in DOMAIN cur.bound[j] :
              /\ cur.bound[j][nm].src = nm
              /\ cur.bound[j][nm].idx = cur.bound[j]["y"].idx
        /\ \A j, k \in DOMAIN cur.bound :
              j < k => cur.bound[j]["y"].idx < cur.bound[k]["y"].idx
        /\ (loop \in ZipLoops /\ pc = cur.pass /\ pos > 0) =>
              /\ Len(cur.bound) = 1
              /\ cur.bound[1]["y"].idx =
                    (IF pc = "train" THEN 0 ELSE Len(lists["y"]) - Len(test["y"])) + pos - 1
              /\ cur.bound[1]["y"] = lists["y"][cur.bound[1]["y"].idx + 1]

\* the second sample of an evaluation pass of the CCXN loop has been bound
C9_Witness ==
    /\ loop = "ccxn" /\ pc = "test" /\ cur.pass = "test" /\ pos = 2
    /\ cur.bound[1]["x_0"].idx = 2

\* C12: the loss list and the two counters are reset at the start of every
\* epoch, so during a training pass they hold exactly what this epoch's pass
\* has produced, and the loss and Train_acc of an Epoch line are those of this
\* epoch's training pass alone, whatever an earlier evaluation pass left in
\* the counters.
C12_EpochResets ==
    /\ (pc = "train" /\ pos = 0) =>
          /\ epoch_loss = <<>>
          /\ loop \in ZipLoops => (num_samples = 0 /\ correct = 0)
    /\ (pc = "train" /\ loop \in ZipLoops) =>
          /\ num_samples = pos /\ num_samples = Len(epoch_log.samples)
          /\ correct = OkCount
          /\ epoch_loss = epoch_log.losses
    /\ EpochLineFresh =>
          /\ Nearest(line.loss, SumSeq(epoch_log.losses), Len(epoch_log.losses))
          /\ loop \in ZipLoops =>
                Nearest(line.acc, OkCount * Fmt4Scale, Len(epoch_log.samples))
          /\ loop = "hsn" =>
                (cur.pass = "train" /\
                 Nearest(line.acc, Cardinality(cur.counted) * Fmt4Scale, NumNodes))

\* the training pass of the second epoch starts with cleared counters right
\* after an evaluation pass that counted its last sample as correct
C12_Witness ==
    /\ loop \in ZipLoops /\ pc = "train" /\ pos = 0 /\ epoch_i = 2
    /\ cur.pass = "test" /\ cur.counted # {}
    /\ out[Len(out)].kind = "Test_acc"
    /\ num_samples = 0 /\ correct = 0 /\ epoch_loss = <<>>

ClaimedOrder == <<"zero_grad", "forward", "loss", "count", "backward", "step", "record">>

C14_EvalNoUpdate ==
    [][pc = "test" =>
          /\ params' = params
          /\ opt_state' = opt_state
          /\ epoch_loss' = epoch_loss]_vars

\* an evaluation pass over a test sample has just ended in the second epoch,
\* after four optimizer steps
C14_Witness ==
    /\ loop = "template" /\ pc = "loop" /\ epoch_i = 2
    /\ line.kind = "Test_acc" /\ line.epoch = 2
    /\ cur.pass = "test" /\ cur.steps = <<"forward", "count">>
    /\ params = 4 /\ opt_state = 4 /\ Len(epoch_loss) = 2

\* the training pass of epoch epoch_i has ended
TrainingPassOver == epoch_i >= 1 /\ (pc \in {"test", "loop", "done"})

\* C15: each training sample gets exactly one optimizer step per epoch: when
\* the training pass of epoch k has ended, k * |samples_train| steps have
\* been applied since the start of the run, and a completed run has applied
\* num_epochs * |samples_train| steps.
C15_OneStepPerSample ==
    /\ TrainingPassOver => params = epoch_i * Len(train["y"])
    /\ pc = "done" => params = num_epochs * Len(train["y"])

\* the phase of the run: Idle before the first epoch and after the last,
\* Training and Evaluating inside the passes, and the head of the for loop
\* between two epochs
Phase ==
    CASE pc = "train" -> "Training"
      [] pc = "test" -> "Evaluating"
      [] pc = "loop" /\ epoch_i >= 1 /\ epoch_i < LastEpoch -> "NextEpoch"
      [] OTHER -> "Idle"

PhaseOrderStep ==
    /\ (Phase' = "Evaluating" /\ Phase # "Evaluating") =>
          (Phase = "Training" /\ epoch_i' = epoch_i)
    /\ (Phase = "Evaluating" /\ Phase' # "Evaluating") =>
          (Phase' \in {"NextEpoch", "Idle"} /\ epoch_i' = epoch_i)
    /\ Phase = "NextEpoch" => (Phase' = "Training" /\ epoch_i' = epoch_i + 1)
    /\ (Phase = "Idle" /\ Phase' # "Idle") => (Phase' = "Training" /\ epoch_i' = 1)
    /\ (Phase = "Training" /\ Phase' # "Training") =>
          Phase' \in {"Evaluating", "NextEpoch", "Idle"}

\* some statement of the cell can be executed next (the HSN passes have no
\* condition besides the position of the control flow)
CanProceed ==
    \/ ENABLED StartEpoch \/ ENABLED Finish
    \/ /\ loop \in ZipLoops
       /\ \/ ENABLED TrainSample \/ ENABLED EpochReport
          \/ ENABLED TestSample \/ ENABLED TestReport
    \/ loop = "hsn" /\ pc \in {"train", "test"} /\ HSNOutputs # {}

CompletedIterations ==
    IF loop = "hsn" THEN epoch_i - 1 ELSE (epoch_i - 1) * Len(train["y"]) + pos

\* C17: when the forward or backward pass raises at training sample i of
\* epoch k the run ends there: the failing iteration takes no optimizer step
\* and records no loss line, the parameters are those left by the iterations
\* completed before it, nothing is written for epoch k, and no further step
\* of the run (no later sample, epoch or retry) follows.
C17_RaiseAborts ==
    pc = "aborted" =>
        /\ error.at \in RaiseSites /\ error.epoch = epoch_i
        /\ loop \in ZipLoops => error.idx = pos
        /\ \A j \in DOMAIN cur.steps : cur.steps[j] # "step"
        /\ params = CompletedIterations /\ opt_state = CompletedIterations
        /\ \A j \in DOMAIN out : out[j].epoch < epoch_i
        /\ Cardinality(EpochLines) = epoch_i - 1
        /\ line.epoch < epoch_i
        /\ ~ENABLED NextFail

\* the backward pass of the second sample of the second epoch raised, after
\* three optimizer steps that stay applied
C17_Witness ==
    /\ pc = "aborted" /\ loop = "ccxn" /\ error = [at |-> "backward", epoch |-> 2, idx |-> 1]
    /\ params = 3 /\ Len(epoch_loss) = 1
    /\ cur.steps = <<"zero_grad", "forward", "loss", "count">>

EmptyTrain == loop \in ZipLoops /\ Len(train["y"]) = 0
EmptyTest == loop \in ZipLoops /\ Len(train["y"]) > 0 /\ Len(test["y"]) = 0

\* C18: the accuracy divisions are not guarded.  With an empty training
\* split the first epoch can only end in the division-by-zero abort of
\* train_acc, with nothing written and no optimizer step taken; with a
\* non-empty training split and an empty test split the first evaluation
\* pass can only end in the abort of test_acc, after the Epoch line of that
\* epoch and with that epoch's optimizer steps applied.
C18_EmptySplitAborts ==
    /\ pc = "aborted" =>
          /\ error.at \in {"train_acc", "test_acc"}
          /\ error.at = "train_acc" <=> EmptyTrain
          /\ error.at = "test_acc" <=> EmptyTest
    /\ EmptyTrain =>
          /\ out = <<>> /\ line = NoLine /\ params = 0 /\ epoch_i <= 1
          /\ pc = "train" => (ENABLED TrainAccRaise /\ ~ENABLED EpochReport)
          /\ pc = "aborted" => (error.epoch = 1 /\ ~ENABLED NextEmpty)
    /\ EmptyTest =>
          /\ TestLines = {} /\ epoch_i <= test_interval
          /\ pc = "test" => (ENABLED TestAccRaise /\ ~ENABLED TestReport)
          /\ pc \in {"test", "aborted"} =>
                /\ epoch_i = test_interval
                /\ Len(out) = epoch_i
                /\ out[Len(out)] = [kind |-> "Epoch", epoch |-> epoch_i]
                /\ line.kind = "Epoch" /\ line.epoch = epoch_i
                /\ params = epoch_i * Len(train["y"])
          /\ pc = "aborted" => (error.epoch = epoch_i /\ ~ENABLED NextEmpty)

\* test_acc raised in the second epoch, the first evaluation with
\* test_interval = 2, after two Epoch lines and four optimizer steps
C18_Witness ==
    /\ EmptyTest /\ pc = "aborted" /\ error.at = "test_acc"
    /\ test_interval = 2 /\ epoch_i = 2 /\ Len(out) = 2 /\ params = 4

\* train_acc raised in the first epoch of a run on an empty training split
C18_WitnessTrain ==
    /\ EmptyTrain /\ pc = "aborted" /\ error.at = "train_acc" /\ Len(test["y"]) > 0

\* every run in which no step raises reaches the end of the cell
RunTerminates == <>(pc = "done")

\* C19: a run in which no step raises ends after exactly num_epochs training
\* passes, whatever num_epochs >= 0, test_interval >= 1 and the splits are.
C19_EndsAfterNumEpochs ==
    pc = "done" =>
        /\ epoch_i = num_epochs
        /\ Cardinality(EpochLines) = num_epochs

\* the split the running pass iterates
SplitSize ==
    IF pc = "train" THEN Len(train["y"])
    ELSE IF pc = "test" THEN Len(test["y"])
    ELSE IF Len(train["y"]) > Len(test["y"]) THEN Len(train["y"]) ELSE Len(test["y"])

\* C23: in the CCXN and TemplateNN loops 0 <= correct <= num_samples <= size
\* of the split being iterated at every point of a pass, num_samples being
\* the number of samples the pass has processed, and every accuracy written
\* lies between 0 and 1.
C23_CounterBounds ==
    loop \in ZipLoops =>
        /\ 0 <= correct /\ correct <= num_samples /\ num_samples <= SplitSize
        /\ pc \in {"train", "test"} => num_samples = pos
        /\ line.kind # "none" => (0 <= line.acc /\ line.acc <= Fmt4Scale)

\* an evaluation pass over two test samples has counted one of them
C23_Witness ==
    /\ loop = "ccxn_att" /\ pc = "test" /\ pos = 2 /\ Len(test["y"]) = 2
    /\ num_samples = 2 /\ correct = 1
    /\ line.kind = "Epoch" /\ line.acc = Fmt4Scale

\* C24: the module's mode flag is "training" at every forward pass, those of
\* the evaluation passes included: model.train() sets it at the start of
\* every epoch and nothing sets evaluation mode; during an evaluation pass,
\* and only then, gradient tracking is off.
C24_AlwaysTrainingMode ==
    /\ training = TRUE
    /\ pc = "test" <=> ~grad_enabled
    /\ cur.pass = "test" => cur.steps[1] = "forward"

\* a forward pass of an evaluation pass has run, without gradient tracking
\* and with the module in training mode
C24_Witness ==
    /\ pc = "test" /\ cur.pass = "test" /\ pos = 1
    /\ ~grad_enabled /\ training

(***************************************************************************)
(* Properties of the split cells (checked under SpecSplit).                *)
(***************************************************************************)
Idx(arr) == [j \in 1..Len(arr) |-> arr[j].idx]

\* C3 as stated, for every notebook: the training part is a prefix, the test
\* part the suffix, and train followed by test is the original sequence.
C3_TrainThenTestEverywhere ==
    pc = "split" =>
        \A nm \in DOMAIN lists : train[nm] \o test[nm] = lists[nm]

\* C3, amended: train followed by test is the original sequence in the CCXN
\* and TemplateNN notebooks whenever train_test_split returns; in the HSN
\* notebook the test labels are the first 4 rows and the training labels the
\* last 30, so test followed by train is the original sequence.
C3_IndexStable ==
    pc = "split" =>
        \A nm \in DOMAIN lists :
            /\ loop \in ZipLoops => train[nm] \o test[nm] = lists[nm]
            /\ loop = "hsn" =>
                  /\ test[nm] \o train[nm] = lists[nm]
                  /\ Idx(test[nm]) = [j \in 1..4 |-> j - 1]
                  /\ Idx(train[nm]) = [j \in 1..30 |-> j + 3]

\* a CCXN split with at least two samples on either side
C3_Witness ==
    /\ pc = "split" /\ loop = "ccxn"
    /\ Len(train["x_0"]) >= 2 /\ Len(test["x_0"]) >= 2
    /\ train["y"] # test["y"]

\* c = ceil(f * n): the least integer with c >= f * n
IsCeilOf(c, f, n) == c * f.den >= f.num * n /\ (c - 1) * f.den < f.num * n

NonEmptyRanks == {r \in Ranks : x_rank[r] # <<>>}

InputsFinite == \A r \in Ranks : \A i \in DOMAIN x_rank[r] : \A c \in 1..num_classes :
                    ~IsNaN(x_rank[r][i][c])

\* for rank r: numerator of the column sum and number of rows (1 row of 0 for
\* a rank left out of the sum)
ColNum(r, c) == IF r \in NonEmptyRanks THEN SumSeq([i \in 1..Len(x_rank[r]) |-> x_rank[r][i][c].num]) ELSE 0
RowCount(r) == IF r \in NonEmptyRanks THEN Len(x_rank[r]) ELSE 1

\* q is the sum over the non-empty ranks of (column sum / number of rows)
IsSumOfMeans(q, c) ==
    q.num * (RowCount(0) * RowCount(1) * RowCount(2)) =
    q.den * ( ColNum(0, c) * RowCount(1) * RowCount(2)
            + ColNum(1, c) * RowCount(0) * RowCount(2)
            + ColNum(2, c) * RowCount(0) * RowCount(1))

\* C10: with finite inputs the value returned by CCXN.forward is the sum of
\* the means of the non-empty ranks, an empty rank counting as zero, and no
\* component of it is NaN.
C10_EmptyRankAsZero ==
    (pc = "returned" /\ InputsFinite) =>
        \A c \in 1..num_classes :
            /\ ~IsNaN(pooled[c])
            /\ IsSumOfMeans(pooled[c], c)

\* a complex with nodes and edges but no faces, pooled to a non-zero value
C10_Witness ==
    /\ pc = "returned" /\ InputsFinite
    /\ x_rank[2] = <<>> /\ Len(x_rank[1]) = 2 /\ Len(x_rank[0]) = 2
    /\ pooled[1].num # 0

\* C11: the zero substitution of CCXN.forward replaces every NaN component of
\* a per-rank mean by 0 and leaves every other component unchanged, and it is
\* idempotent: applied to its own result it changes nothing.
C11_ZeroSubstIdempotent ==
    pc = "returned" =>
        \A r \in Ranks :
            LET mean == NanMean(x_rank[r])
            IN  /\ \A c \in 1..num_classes :
                      rank_mean[r][c] = (IF IsNaN(mean[c]) THEN Whole(0) ELSE mean[c])
                /\ NanToZero(rank_mean[r]) = rank_mean[r]
                /\ NanToZero(NanToZero(mean)) = NanToZero(mean)

\* one rank is empty (its mean is NaN in every component), another has a mean
\* with one NaN and one non-zero component
C11_Witness ==
    /\ pc = "returned"
    /\ x_rank[2] = <<>> /\ rank_mean[2] = <<Whole(0), Whole(0)>>
    /\ x_rank[1] = <<(<<NaN, Whole(3)>>)>> /\ rank_mean[1] = <<Whole(0), Whole(3)>>

(***************************************************************************)
(* Properties of the workflow (checked under SpecCI).                      *)
(***************************************************************************)
StepIndex(name) == CHOOSE j \in DOMAIN StepNames : StepNames[j] = name

Executed(j) == j \in DOMAIN ci.ran /\ ci.ran[j].result # "skipped"

\* C20: the steps of the job run in the order checkout, Python set-up,
\* PyTorch install, package install, pytest, coverage upload; an error of the
\* coverage upload does not fail the job; a failure of any earlier step fails
\* the job and none of the steps after it runs, so pytest never runs without
\* the package installed.
C20_StepsAndFailures ==
    /\ StepNames = <<"checkout", "setup_python", "install_pytorch", "install_package",
                     "pytest", "upload_coverage">>
    /\ \A j \in DOMAIN ci.ran : ci.ran[j].name = StepNames[j]
    /\ \A j \in DOMAIN ci.ran :
          /\ (ci.ran[j].outcome = "error" /\ j < StepIndex("upload_coverage")) =>
                /\ \A k \in DOMAIN ci.ran : k > j => ~Executed(k)
                /\ ci.job \in {"running", "failure"}
          /\ Executed(j) => \A k \in 1..(j - 1) : ci.ran[k].outcome = "ok"
    /\ Executed(StepIndex("pytest")) =>
          ci.ran[StepIndex("install_package")].result = "success"
    /\ ci.job = "failure" <=>
          (ci.job \in {"success", "failure"} /\
           \E j \in 1..(StepIndex("upload_coverage") - 1) : ci.ran[j].outcome = "error")
    /\ ci.job = "success" =>
          \A j \in 1..(StepIndex("upload_coverage") - 1) : ci.ran[j].outcome = "ok"

\* a job whose coverage upload ended in an error has concluded with success
C20_Witness ==
    /\ ci.job = "success" /\ Len(ci.ran) = Len(StepNames)
    /\ ci.ran[Len(StepNames)].name = "upload_coverage"
    /\ ci.ran[Len(StepNames)].outcome = "error"

\* the package install failed: pytest and the upload were skipped, the job failed
C20_WitnessFailure ==
    /\ ci.job = "failure"
    /\ ci.ran[StepIndex("install_package")].outcome = "error"
    /\ ~Executed(StepIndex("pytest")) /\ ~Executed(StepIndex("upload_coverage"))

(***************************************************************************)
(* Properties of the model construction (checked under SpecModel).         *)
(***************************************************************************)
\* C21: in every notebook model the parameters of every stacked layer and of
\* every linear head are in the parameter set handed to the optimizer, so
\* every optimizer step updates every layer and every head.
C21_AllLayersOptimized ==
    pc = "model_train" =>
        /\ \A i \in 0..(net.n_layers - 1) : LayerParam(i) \in net.opt
        /\ \A h \in Heads(loop) : HeadParam(h) \in net.opt
        /\ \A q \in DOMAIN net.updates : net.updates[q] = net.steps


(***************************************************************************)
(* Properties of two runs that differ in their test labels                 *)
(***************************************************************************)
\* C22: test labels never influence training: in two runs from the same
\* parameters on the same samples that differ only in the labels of the test
\* split, every optimizer step is computed from the same loss and gradient,
\* the parameters, the optimizer state and the epoch losses are the same after
\* every statement, every Epoch line (loss and training accuracy) is the
\* same, and the two runs print different lines only for Test_acc.
C22_TestLabelsNoInfluence ==
    twin.pc # "none" =>
        /\ twin.steps_agree
        /\ InSync =>
              /\ twin.params = params /\ twin.opt_state = opt_state
              /\ twin.grad = grad /\ twin.epoch_loss = epoch_loss
              /\ twin.line.kind = line.kind /\ twin.line.epoch = line.epoch
              /\ line.kind = "Epoch" => twin.line = line
              /\ twin.line # line => line.kind = "Test_acc"
              /\ pc = "train" => (twin.correct = correct
                                  /\ twin.num_samples = num_samples)

\* the Epoch line of a later epoch is the same in both runs after their
\* Test_acc lines differed
C22_Witness ==
    /\ InSync /\ twin.test_differed
    /\ line.kind = "Epoch" /\ line.epoch >= 2 /\ twin.line = line
    /\ params >= 2 /\ twin.params = params
====
